---- MODULE Spec2Model ----
(***************************************************************************)
(* A model of the insweb file server: POST /upload (multer disk storage),   *)
(* DELETE /delete (fs.access then fs.unlink) and GET /uploads/<name>        *)
(* (express.static), over a small POSIX file system.                        *)
(*                                                                          *)
(* The repository holds three variants of the server: server.js, and two   *)
(* earlier copies, part_000 and part_001.  The variable `variant` says      *)
(* which one is running; it is chosen at start-up and never changes.        *)
(*                                                                          *)
(* Strings are sequences of one-character strings, so that sanitizing,      *)
(* base-36 formatting, basename and path.join are computed as the code      *)
(* computes them.  Paths are POSIX paths (separator "/").                   *)
(***************************************************************************)
EXTENDS Integers, Sequences, FiniteSets, TLC

VARIABLES variant, now, files, up, del, gone, got, fn

vars == <<variant, now, files, up, del, gone, got, fn>>

(***************************************************************************)
(* Bounds of the model.                                                     *)
(***************************************************************************)
NumUploads == 2      \* upload requests in one behaviour
NumDeletes == 2      \* delete requests in one behaviour
MaxTicks   == 1      \* clock ticks (milliseconds) in one behaviour
MaxNameLen == 3      \* length of the client file names of SpecNames

(***************************************************************************)
(* Program constants.                                                       *)
(***************************************************************************)
\* limits.fileSize: 40 * 1024 * 1024 bytes, counted here in blocks of 40 MiB.
fileSize == 1
\* generateCustomID(length = 8)
DefaultLength == 8
\* the radix of Date.now().toString(36)
Radix == 36
\* Date.now() when the server starts (the model's epoch).
StartTime == 35

Variants == {"server.js", "part_000", "part_001"}

(***************************************************************************)
(* generateCustomID                                                         *)
(***************************************************************************)
chars ==
  << "A","B","C","D","E","F","G","H","I","J","K","L","M",
     "N","O","P","Q","R","S","T","U","V","W","X","Y","Z",
     "a","b","c","d","e","f","g","h","i","j","k","l","m",
     "n","o","p","q","r","s","t","u","v","w","x","y","z",
     "0","1","2","3","4","5","6","7","8","9" >>

Alnum == { chars[i] : i \in 1..Len(chars) }

digits36 ==
  << "0","1","2","3","4","5","6","7","8","9",
     "a","b","c","d","e","f","g","h","i","j","k","l","m",
     "n","o","p","q","r","s","t","u","v","w","x","y","z" >>

\* Number.prototype.toString(36) of a non-negative integer.
RECURSIVE toString36(_)
toString36(n) ==
  IF n < Radix THEN << digits36[n + 1] >>
  ELSE toString36(n \div Radix) \o << digits36[(n % Radix) + 1] >>

\* rnd[i] is Math.floor(Math.random() * chars.length) of the i-th iteration.
generateCustomID(length, rnd, time) ==
  [ i \in 1..length |-> chars[rnd[i] + 1] ] \o toString36(time)

(***************************************************************************)
(* The file name of an upload.                                              *)
(***************************************************************************)
\* busboy, as multer configures it (preservePath unset), hands the handler
\* the basename of the client's file name: what follows the last "/" or "\",
\* and "" for "." and "..".
RECURSIVE LastSep(_, _)
LastSep(s, i) ==
  IF i = 0 THEN 0
  ELSE IF s[i] \in {"/", "\\"} THEN i
  ELSE LastSep(s, i - 1)

basename(s) ==
  LET k == LastSep(s, Len(s))
      t == SubSeq(s, k + 1, Len(s))
  IN  IF t = <<".", ".">> \/ t = <<".">> THEN << >> ELSE t

\* a replace whose class lacks the dot: /[^a-zA-Z0-9-]/g
sanitizeDots(s) ==
  [ i \in 1..Len(s) |-> IF s[i] \in Alnum \cup {"-"} THEN s[i] ELSE "_" ]

\* originalname.replace(/[^a-zA-Z0-9.-]/g, "_")
sanitize(s) ==
  [ i \in 1..Len(s) |-> IF s[i] \in Alnum \cup {".", "-"} THEN s[i] ELSE "_" ]

\* storage.filename: server.js and part_000 sanitize the original name,
\* part_001 concatenates it as it is.
filename(v, originalname, rnd, time) ==
  IF v = "part_001"
  THEN generateCustomID(DefaultLength, rnd, time) \o <<"-">> \o originalname
  ELSE generateCustomID(DefaultLength, rnd, time) \o <<"-">> \o sanitize(originalname)

(***************************************************************************)
(* path.join (POSIX): split at "/", drop "" and ".", resolve "..".          *)
(***************************************************************************)
RECURSIVE Split(_, _)
\* the segments of s, cur being the segment read so far
Split(s, cur) ==
  IF s = << >> THEN << cur >>
  ELSE IF Head(s) = "/" THEN << cur >> \o Split(Tail(s), << >>)
  ELSE Split(Tail(s), Append(cur, Head(s)))

DotDot == <<".", ".">>

RECURSIVE Normalize(_, _)
\* segs resolved against the absolute directory `stack`
Normalize(stack, segs) ==
  IF segs = << >> THEN stack
  ELSE LET h == Head(segs) IN
       IF h = << >> \/ h = <<".">> THEN Normalize(stack, Tail(segs))
       ELSE IF h = DotDot
            THEN Normalize(IF stack = << >> THEN stack
                           ELSE SubSeq(stack, 1, Len(stack) - 1), Tail(segs))
       ELSE Normalize(Append(stack, h), Tail(segs))

\* path.join(dir, name) for an absolute, normalized dir
PathJoin(dir, name) == Normalize(dir, Split(name, << >>))

(***************************************************************************)
(* The file system.  A path is a sequence of segments.  A directory entry  *)
(* names an inode (ino) and the inode's bytes (data); an open write stream  *)
(* keeps writing to its inode after the entry is unlinked.                  *)
(***************************************************************************)
dirname == << <<"a","p","p">> >>                       \* __dirname
UPLOADS_DIR == PathJoin(dirname, <<"u","p","l","o","a","d","s">>)
ServerJs == dirname \o << <<"s","e","r","v","e","r",".","j","s">> >>
EtcPasswd == << <<"e","t","c">>, <<"p","a","s","s","w","d">> >>

\* the directories; they exist from start-up on and are never removed
Dirs == { << >>, dirname, UPLOADS_DIR, << <<"e","t","c">> >> }

Hole == "0"          \* a byte of a hole left by a write past the end

Exists(fs, p) == p \in Dirs \/ p \in DOMAIN fs
Parent(p) == SubSeq(p, 1, Len(p) - 1)
Inside(p) == Len(p) > Len(UPLOADS_DIR) /\ SubSeq(p, 1, Len(UPLOADS_DIR)) = UPLOADS_DIR

\* an unlink that reports success and leaves the entry in place
UnlinkKeeps(fs, p) == fs

\* an unlink that takes the other entries of p's directory along
UnlinkSiblings(fs, p) == [ q \in { r \in DOMAIN fs : Parent(r) # Parent(p) } |-> fs[q] ]

\* fs without the entry p
Unlink(fs, p) == [ q \in DOMAIN fs \ {p} |-> fs[q] ]

\* fs after open(p, "w") by the stream of upload u: the entry is created
\* with a new inode, or an existing entry is truncated and its inode shared.
OpenW(fs, p, u) ==
  IF p \in DOMAIN fs
  THEN [ fs EXCEPT ![p].data = << >> ]
  ELSE [ q \in DOMAIN fs \cup {p} |-> IF q = p THEN [ino |-> u, data |-> << >>] ELSE fs[q] ]

\* data with byte b stored at position i
WriteAt(data, i, b) ==
  [ k \in 1..(IF i > Len(data) THEN i ELSE Len(data)) |->
      IF k = i THEN b ELSE IF k <= Len(data) THEN data[k] ELSE Hole ]

\* fs after the stream holding inode ino wrote byte b at position i
WriteIno(fs, ino, i, b) ==
  [ q \in DOMAIN fs |->
      IF fs[q].ino = ino THEN [ fs[q] EXCEPT !.data = WriteAt(fs[q].data, i, b) ]
      ELSE fs[q] ]

(***************************************************************************)
(* multer configuration                                                     *)
(***************************************************************************)
allowedTypes(v) ==
  IF v = "server.js"
  THEN { "image/png", "image/jpeg", "image/jpg", "application/pdf",
         "application/vnd.openxmlformats-officedocument.wordprocessingml.document",
         "application/msword",
         "application/vnd.openxmlformats-officedocument.spreadsheetml.sheet",
         "application/vnd.ms-excel" }
  ELSE { "image/png", "image/jpeg", "image/jpg", "application/pdf" }

\* fileFilter: TRUE when the file is accepted; part_001 configures none
fileFilter(v, mimetype) ==
  IF v = "part_001" THEN TRUE ELSE mimetype \in allowedTypes(v)

\* limits: part_001 configures none
HasLimit(v) == v # "part_001"

\* the bytes busboy lets through to the write stream
Accepted(v, body) ==
  IF HasLimit(v) /\ Len(body) > fileSize THEN SubSeq(body, 1, fileSize) ELSE body

\* a ceiling that is off by one block
TruncatedLate(v, body) == HasLimit(v) /\ Len(body) > fileSize + 1

\* busboy cut the file and raised 'limit'
Truncated(v, body) == HasLimit(v) /\ Len(body) > fileSize

\* The response to an upload that failed with err: server.js answers in its
\* error middleware, 400 whatever the error is; part_000 and part_001 have
\* none, and Express's default handler answers 500.
errorResponse(v, err) ==
  [ status |-> IF v = "server.js" THEN 400 ELSE 500, message |-> err ]

filterMessage(v) ==
  IF v = "server.js" THEN "Unsupported file type"
  ELSE "Invalid file type. Only PNG, JPEG, JPG, and PDF allowed."

(***************************************************************************)
(* Inputs                                                                   *)
(***************************************************************************)
Uploads == 1..NumUploads
Deletes == 1..NumDeletes

MimeTypes == { "image/png", "text/html" }
ClientNames == { <<"a">>, <<" ">> }
\* one body at the ceiling and one above it
Bodies == { [ i \in 1..fileSize |-> "x" ], [ i \in 1..(fileSize + 1) |-> "y" ] }
\* the eight draws of Math.random of one call of generateCustomID
ZeroDraw == [ i \in 1..DefaultLength |-> 0 ]

RandomDraws == { ZeroDraw,
                 [ i \in 1..DefaultLength |-> IF i = DefaultLength THEN 61 ELSE 0 ] }

NoName == << >>

\* a file stored by an earlier run of the server, its name known to clients
OldName == generateCustomID(DefaultLength, [ i \in 1..DefaultLength |-> 0 ], StartTime - 1)
             \o <<"-", "a">>
OldPath == PathJoin(UPLOADS_DIR, OldName)

\* another file stored by an earlier run, which no request of the model names
OtherName == generateCustomID(DefaultLength, [ i \in 1..DefaultLength |-> 0 ], StartTime - 1)
               \o <<"-", "b">>
OtherPath == PathJoin(UPLOADS_DIR, OtherName)

\* fileName values of delete requests that name no stored file: none or "",
\* "../server.js", "../../etc/passwd", "." and "nofile"
FixedDeleteNames ==
  { NoName,
    <<".", ".", "/", "s","e","r","v","e","r",".","j","s">>,
    <<".", ".", "/", ".", ".", "/", "e","t","c", "/", "p","a","s","s","w","d">>,
    <<".">>,
    <<"n","o","f","i","l","e">> }

\* the files there are when the server starts; the inodes of uploads are
\* numbered from 1, and fd 0 is no descriptor
InitialFiles ==
  ( ServerJs :> [ino |-> -1, data |-> <<"x">>] )
    @@ ( EtcPasswd :> [ino |-> -2, data |-> <<"y">>] )
    @@ ( OldPath :> [ino |-> -3, data |-> <<"x">>] )
    @@ ( OtherPath :> [ino |-> -4, data |-> <<"y">>] )

IdleUpload ==
  [ pc |-> "idle", hasFile |-> FALSE, mimetype |-> "", clientName |-> NoName,
    body |-> << >>, filename |-> NoName, fd |-> 0, pos |-> 0, ioError |-> FALSE,
    status |-> 0, fileUrl |-> NoName, message |-> "", sent |-> 0 ]

IdleDelete ==
  [ pc |-> "idle", fileName |-> NoName, present |-> FALSE, follows |-> FALSE,
    disturbed |-> FALSE, status |-> 0, message |-> "", sent |-> 0 ]

NoGet == [ name |-> NoName, status |-> 0, data |-> << >> ]
NoCall == [ name |-> NoName, rnd |-> << >>, called |-> FALSE, out |-> NoName ]

Init ==
  /\ variant \in Variants
  /\ now = StartTime
  /\ files = InitialFiles
  /\ up = [ u \in Uploads |-> IdleUpload ]
  /\ del = [ d \in Deletes |-> IdleDelete ]
  /\ gone = { }
  /\ got = NoGet
  /\ fn = NoCall

(***************************************************************************)
(* POST /upload: upload.single("file"), then the route's handler.           *)
(***************************************************************************)
FinalPath(u) == PathJoin(UPLOADS_DIR, up[u].filename)

\* the delete requests in flight on path p, other than d, see the entry change
Disturb(p, d) ==
  [ e \in Deletes |->
      IF e # d /\ del[e].pc \in {"access", "unlink"}
         /\ PathJoin(UPLOADS_DIR, del[e].fileName) = p
      THEN [ del[e] EXCEPT !.disturbed = TRUE ]
      ELSE del[e] ]

\* an error middleware that answers and still passes the error on, so that
\* Express's default handler answers as well
FailTwice(u, err, io) ==
  up' = [ up EXCEPT ![u].pc = "done",
                    ![u].ioError = io,
                    ![u].status = errorResponse(variant, err).status,
                    ![u].message = errorResponse(variant, err).message,
                    ![u].sent = @ + 2 ]

\* the request fails with err: multer passes the error on, and the error
\* middleware (server.js) or Express's default handler answers.  `sent`
\* counts the responses written for the request.
Fail(u, err, io) ==
  up' = [ up EXCEPT ![u].pc = "done",
                    ![u].ioError = io,
                    ![u].status = errorResponse(variant, err).status,
                    ![u].message = errorResponse(variant, err).message,
                    ![u].sent = @ + 1 ]

\* The request arrives and busboy reads the part's header.  Without a file
\* part, or with one whose file name is empty (multer skips it), req.file is
\* not set and the handler answers 400.  Otherwise fileFilter runs, then
\* storage.destination and storage.filename, in the same turn of the loop;
\* the write stream's open is left to the thread pool.
UploadBegin(u, hasFile, mimetype, clientName, body, rnd) ==
  /\ up[u].pc = "idle"
  /\ u > 1 => up[u - 1].pc # "idle"
  /\ IF ~hasFile \/ basename(clientName) = NoName
     THEN up' = [ up EXCEPT ![u].pc = "done", ![u].status = 400,
                            ![u].message = "No file found in the request body",
                            ![u].sent = @ + 1 ]
     ELSE LET r == [ up[u] EXCEPT !.hasFile = TRUE, !.mimetype = mimetype,
                                  !.clientName = clientName, !.body = body ]
          IN  IF ~fileFilter(variant, mimetype)
              THEN up' = [ up EXCEPT ![u] =
                             [ r EXCEPT !.pc = "done",
                                        !.status = errorResponse(variant, filterMessage(variant)).status,
                                        !.message = errorResponse(variant, filterMessage(variant)).message,
                                        !.sent = @ + 1 ] ]
              ELSE up' = [ up EXCEPT ![u] =
                             [ r EXCEPT !.pc = "open",
                                        !.filename = filename(variant, basename(clientName), rnd, now) ] ]
  /\ UNCHANGED <<variant, now, files, del, gone, got, fn>>

\* fs.createWriteStream(finalPath): open(finalPath, "w"), or its failure
\* (EACCES, ENOSPC, EISDIR, ENOENT), which the stream emits as 'error'.
UploadOpen(u, ok) ==
  /\ up[u].pc = "open"
  /\ LET p == FinalPath(u) IN
     IF ok /\ p \notin Dirs /\ Parent(p) \in Dirs
     THEN /\ files' = OpenW(files, p, u)
          /\ up' = [ up EXCEPT ![u].pc = "write", ![u].fd = OpenW(files, p, u)[p].ino ]
          /\ gone' = gone \ {p}
          /\ del' = Disturb(p, 0)
     ELSE /\ Fail(u, "EACCES", TRUE)
          /\ UNCHANGED <<files, gone, del>>
  /\ UNCHANGED <<variant, now, got, fn>>

\* The stream writes the next block that busboy let through, or the write
\* fails (ENOSPC, EIO): the stream emits 'error' and multer aborts the
\* request; the file stays as it is.
UploadWrite(u, ok) ==
  /\ up[u].pc = "write"
  /\ up[u].pos < Len(Accepted(variant, up[u].body))
  /\ IF ok
     THEN /\ files' = WriteIno(files, up[u].fd, up[u].pos + 1, up[u].body[up[u].pos + 1])
          /\ up' = [ up EXCEPT ![u].pos = @ + 1 ]
     ELSE /\ Fail(u, "ENOSPC", TRUE)
          /\ UNCHANGED files
  /\ UNCHANGED <<variant, now, del, gone, got, fn>>

\* The stream's 'finish'.  When busboy cut the file at limits.fileSize,
\* multer is aborting with LIMIT_FILE_SIZE and goes on to remove the file;
\* otherwise the handler answers 200 with the file's URL.
UploadFinish(u) ==
  /\ up[u].pc = "write"
  /\ up[u].pos = Len(Accepted(variant, up[u].body))
  /\ IF Truncated(variant, up[u].body)
     THEN up' = [ up EXCEPT ![u].pc = "remove" ]
     ELSE up' = [ up EXCEPT ![u].pc = "done", ![u].status = 200,
                            ![u].fileUrl = up[u].filename, ![u].sent = @ + 1 ]
  /\ UNCHANGED <<variant, now, files, del, gone, got, fn>>

\* multer's removeUploadedFiles: fs.unlink(file.path), its error kept aside;
\* then the LIMIT_FILE_SIZE error is answered.
UploadRemove(u) ==
  /\ up[u].pc = "remove"
  /\ LET p == FinalPath(u) IN
     IF p \in DOMAIN files
     THEN /\ files' = Unlink(files, p)
          /\ del' = Disturb(p, 0)
     ELSE UNCHANGED <<files, del>>
  /\ Fail(u, "File too large", FALSE)
  /\ UNCHANGED <<variant, now, gone, got, fn>>

\* The client closes the connection before the whole body went through: req
\* emits 'aborted' and 'close' and never 'end', so the file stream that
\* diskStorage pipes into the write stream never ends, and neither the
\* stream's 'finish' nor 'error' comes.  The route registers no listener on
\* req, and multer removes only the files whose storage callback was called:
\* this one's was not.  Nothing more happens for the request.
UploadAbort(u) ==
  /\ up[u].pc = "write"
  /\ up[u].pos < Len(Accepted(variant, up[u].body))
  /\ up' = [ up EXCEPT ![u].pc = "aborted" ]
  /\ UNCHANGED <<variant, now, files, del, gone, got, fn>>

\* a millisecond passes
Tick ==
  /\ now < StartTime + MaxTicks
  /\ now' = now + 1
  /\ UNCHANGED <<variant, files, up, del, gone, got, fn>>

(***************************************************************************)
(* DELETE /delete                                                           *)
(***************************************************************************)
FilePath(d) == PathJoin(UPLOADS_DIR, del[d].fileName)

\* the stored names that the 200 responses of uploads have told their callers
LearnedNames == { up[u].fileUrl : u \in { v \in Uploads : up[v].status = 200 } }

\* the names a client can send: the fixed ones, and the names it was told
DeleteNames == FixedDeleteNames \cup {OldName} \cup LearnedNames

\* The handler's first turn: 400 for a missing or empty fileName, else
\* path.join and the call of fs.access.  `present` and `follows` remember
\* what the request found: a file at its path, or a path that a delete
\* answered 200 for and no upload has created since.
DeleteStart(d, fileName) ==
  /\ del[d].pc = "idle"
  /\ d > 1 => del[d - 1].pc # "idle"
  /\ IF fileName = NoName
     THEN del' = [ del EXCEPT ![d].pc = "done", ![d].status = 400,
                              ![d].message = "File name is required",
                              ![d].sent = @ + 1 ]
     ELSE del' = [ del EXCEPT ![d].pc = "access", ![d].fileName = fileName,
                     ![d].present = PathJoin(UPLOADS_DIR, fileName) \in DOMAIN files,
                     ![d].follows = PathJoin(UPLOADS_DIR, fileName) \in gone ]
  /\ UNCHANGED <<variant, now, files, up, gone, got, fn>>

\* the callback of fs.access(filePath, F_OK)
DeleteAccess(d) ==
  /\ del[d].pc = "access"
  /\ IF Exists(files, FilePath(d))
     THEN del' = [ del EXCEPT ![d].pc = "unlink" ]
     ELSE del' = [ del EXCEPT ![d].pc = "done", ![d].status = 404,
                              ![d].message = "File not found", ![d].sent = @ + 1 ]
  /\ UNCHANGED <<variant, now, files, up, gone, got, fn>>

\* fs.unlink(filePath) and its callback: the entry is removed, or unlink
\* fails (ENOENT for a path gone since fs.access, EISDIR for a directory).
DeleteUnlink(d) ==
  /\ del[d].pc = "unlink"
  /\ LET p == FilePath(d) IN
     IF p \in DOMAIN files
     THEN /\ files' = Unlink(files, p)
          /\ gone' = gone \cup {p}
          /\ del' = [ Disturb(p, d) EXCEPT ![d].pc = "done", ![d].status = 200,
                                           ![d].message = "File deleted successfully",
                                           ![d].sent = @ + 1 ]
     ELSE /\ del' = [ del EXCEPT ![d].pc = "done", ![d].status = 500,
                                 ![d].message = "Error deleting file",
                                 ![d].sent = @ + 1 ]
          /\ UNCHANGED <<files, gone>>
  /\ UNCHANGED <<variant, now, up, got, fn>>

(***************************************************************************)
(* GET /uploads/<name>: express.static(UPLOADS_DIR)                         *)
(***************************************************************************)
GetNames ==
  {OldName, <<"n","o","f","i","l","e">>}
    \cup { up[u].filename : u \in { v \in Uploads : up[v].filename # NoName } }

\* the answer of express.static to GET /uploads/<name>: the file's bytes as
\* they are, 404 when there is no such file
static(fs, name) ==
  LET p == PathJoin(UPLOADS_DIR, name) IN
  IF p \in DOMAIN fs /\ Inside(p)
  THEN [ name |-> name, status |-> 200, data |-> fs[p].data ]
  ELSE [ name |-> name, status |-> 404, data |-> << >> ]

Get(name) ==
  /\ got' = static(files, name)
  /\ UNCHANGED <<variant, now, files, up, del, gone, fn>>

(***************************************************************************)
(* storage.filename on its own: the callback applied to every client file  *)
(* name of a bounded set.                                                   *)
(***************************************************************************)
NameChars == { "a", ".", "-", "_", " ", "/", "\\" }
ClientNameSpace == UNION { [ 1..n -> NameChars ] : n \in 0..MaxNameLen }

InitNames ==
  /\ variant \in Variants
  /\ now \in StartTime..(StartTime + MaxTicks)
  /\ files = InitialFiles
  /\ up = [ u \in Uploads |-> IdleUpload ]
  /\ del = [ d \in Deletes |-> IdleDelete ]
  /\ gone = { }
  /\ got = NoGet
  /\ fn \in [ name : ClientNameSpace, rnd : RandomDraws, called : {FALSE}, out : {NoName} ]

\* multer calls storage.filename for a file part whose originalname, the
\* basename of the client's file name, is not empty
FilenameCall ==
  /\ ~fn.called
  /\ basename(fn.name) # NoName
  /\ fn' = [ fn EXCEPT !.called = TRUE,
                        !.out = filename(variant, basename(fn.name), fn.rnd, now) ]
  /\ UNCHANGED <<variant, now, files, up, del, gone, got>>

(***************************************************************************)
(* Specifications                                                           *)
(***************************************************************************)
\* the steps of upload u
UploadSteps(u, names, draws) ==
  \/ \E hasFile \in BOOLEAN, mimetype \in MimeTypes, clientName \in names,
        body \in Bodies, rnd \in draws :
        UploadBegin(u, hasFile, mimetype, clientName, body, rnd)
  \/ \E ok \in BOOLEAN : UploadOpen(u, ok)
  \/ \E ok \in BOOLEAN : UploadWrite(u, ok)
  \/ UploadFinish(u)
  \/ UploadRemove(u)

\* the steps of upload u, any client name, any draw of Math.random
UploadStep(u) == UploadSteps(u, ClientNames, RandomDraws)

\* the steps of upload u when every client sends the same file name and
\* Math.random repeats itself: uploads that start in the same millisecond
\* are stored under the same path
SameFileStep(u) == UploadSteps(u, { <<"a">> }, { ZeroDraw })

\* the steps of delete d, any name a client can send
DeleteStep(d) ==
  \/ \E fileName \in DeleteNames : DeleteStart(d, fileName)
  \/ DeleteAccess(d)
  \/ DeleteUnlink(d)

\* the steps of delete d when its caller sends a name it learned from the
\* response to an upload
LearnedStep(d) ==
  \/ \E fileName \in LearnedNames : DeleteStart(d, fileName)
  \/ DeleteAccess(d)
  \/ DeleteUnlink(d)

\* the steps of delete d when its caller sends no name, or the name of a
\* file that is or was stored
StoredStep(d) ==
  \/ \E fileName \in {NoName, OldName} \cup LearnedNames : DeleteStart(d, fileName)
  \/ DeleteAccess(d)
  \/ DeleteUnlink(d)

\* uploads running concurrently
NextUpload ==
  \/ \E u \in Uploads : UploadStep(u)
  \/ Tick

\* uploads of the same file running concurrently
NextSameFile ==
  \/ \E u \in Uploads : SameFileStep(u)
  \/ Tick

\* uploads of the same file, and deletes of the names their responses told
NextRace ==
  \/ \E u \in Uploads : SameFileStep(u)
  \/ \E d \in Deletes : LearnedStep(d)
  \/ Tick

\* one upload, and deletes of stored files
NextLive ==
  \/ UploadStep(1)
  \/ \E d \in Deletes : StoredStep(d)

\* the steps that the event loop takes by itself once a request has arrived:
\* the callbacks of fs.access and fs.unlink, and the events of the write
\* stream (the client of an upload goes on sending its body)
Callbacks ==
  \/ \E u \in Uploads, ok \in BOOLEAN : UploadOpen(u, ok)
  \/ \E u \in Uploads, ok \in BOOLEAN : UploadWrite(u, ok)
  \/ \E u \in Uploads : UploadFinish(u)
  \/ \E u \in Uploads : UploadRemove(u)
  \/ \E d \in Deletes : DeleteAccess(d)
  \/ \E d \in Deletes : DeleteUnlink(d)

\* the event loop does not stop while a callback is pending
Fairness == WF_vars(Callbacks)

\* one upload that its client may abort, and GET requests
NextAbort ==
  \/ UploadStep(1)
  \/ UploadAbort(1)
  \/ \E name \in GetNames : Get(name)
  \/ Tick

\* one upload and GET requests
NextServe ==
  \/ UploadStep(1)
  \/ \E name \in GetNames : Get(name)
  \/ Tick

\* delete requests running concurrently
NextDelete == \E d \in Deletes : DeleteStep(d)

\* the whole server
Next ==
  \/ \E u \in Uploads : UploadStep(u)
  \/ \E u \in Uploads : UploadAbort(u)
  \/ \E d \in Deletes : DeleteStep(d)
  \/ \E name \in GetNames : Get(name)
  \/ Tick

Spec == Init /\ [][Next]_vars
SpecUpload == Init /\ [][NextUpload]_vars
SpecSameFile == Init /\ [][NextSameFile]_vars
SpecServe == Init /\ [][NextServe]_vars
SpecAbort == Init /\ [][NextAbort]_vars
SpecRace == Init /\ [][NextRace]_vars
SpecLive == Init /\ [][NextLive]_vars /\ Fairness
SpecDelete == Init /\ [][NextDelete]_vars
SpecNames == InitNames /\ [][FilenameCall]_vars

(***************************************************************************)
(* Properties                                                               *)
(*                                                                          *)
(* A claim that cites one variant of the server is stated of that variant.  *)
(***************************************************************************)
Traversal(name) == \E i \in 1..Len(Split(name, << >>)) : Split(name, << >>)[i] = DotDot

\* C1 (as claimed): a delete request whose fileName holds a ".." segment is
\* answered 400, a delete request unlinks only a path strictly inside
\* UPLOADS_DIR, and no file outside UPLOADS_DIR is ever removed.
C1_TraversalRejected ==
  /\ \A d \in Deletes :
       /\ (del[d].pc = "done" /\ Traversal(del[d].fileName)) => del[d].status = 400
       /\ del[d].status = 200 => Inside(FilePath(d))
  /\ ServerJs \in DOMAIN files
  /\ EtcPasswd \in DOMAIN files

\* C2 (as claimed): whatever a GET of a stored name is answered with is the
\* complete body of the upload stored under that name.
C2_ServedComplete ==
  got.status = 200 =>
    \A u \in Uploads : up[u].filename = got.name => got.data = up[u].body

\* C3 (as claimed): no upload is given a stored name while a file of that
\* name exists, and no two uploads write to the same stored name.
C3_NoNameReuse ==
  /\ \A u \in Uploads : up[u].pc = "open" => FinalPath(u) \notin DOMAIN files
  /\ \A u, v \in Uploads :
       (u # v /\ up[u].fd # 0 /\ up[v].fd # 0) => FinalPath(u) # FinalPath(v)

\* a declared type that no allow-list of the repository holds
Unsupported(mimetype) == mimetype \notin allowedTypes("server.js")

\* C4 (as claimed): an upload of an unsupported type (no write of which
\* failed) is answered with the unsupported-type error and no file URL, and
\* it created no file.
C4_UnsupportedRejected ==
  \A u \in Uploads :
    (up[u].pc = "done" /\ up[u].hasFile /\ Unsupported(up[u].mimetype)
       /\ ~up[u].ioError) =>
      /\ up[u].status \in {400, 500}
      /\ up[u].message = filterMessage(variant)
      /\ up[u].fileUrl = NoName
      /\ up[u].fd = 0

\* an upload of server.js over the ceiling, all of whose writes succeeded
TooLarge(u) ==
  /\ variant = "server.js"
  /\ up[u].hasFile
  /\ up[u].mimetype \in allowedTypes(variant)
  /\ Len(up[u].body) > fileSize
  /\ ~up[u].ioError

\* C5: in server.js, when an upload over the ceiling has been answered (its
\* writes having succeeded), only fileSize blocks of it were written, no
\* entry of the file system names the file it wrote to, and the answer is
\* 400 "File too large" with no file URL.
C5_TooLargeRemoved ==
  \A u \in Uploads :
    (up[u].pc = "done" /\ TooLarge(u)) =>
      /\ up[u].fd # 0 /\ up[u].pos = fileSize
      /\ \A p \in DOMAIN files : files[p].ino # up[u].fd
      /\ up[u].status = 400
      /\ up[u].message = "File too large"
      /\ up[u].fileUrl = NoName

C5_Witness ==
  \E u \in Uploads :
    /\ up[u].pc = "done" /\ TooLarge(u)
    /\ up[u].fd # 0 /\ up[u].pos = fileSize /\ up[u].status = 400

\* C6 (as claimed): in server.js, an upload of an allowed type and of a
\* size not above the ceiling (its writes having succeeded) is answered 200
\* with the URL of its stored name, and when it is answered the file of
\* that name exists and holds exactly the uploaded bytes.
C6_RoundTrip ==
  [][ \A u \in Uploads :
        ( /\ variant = "server.js"
          /\ up[u].pc # "done" /\ up'[u].pc = "done"
          /\ up'[u].hasFile /\ up'[u].mimetype \in allowedTypes(variant)
          /\ Len(up'[u].body) <= fileSize
          /\ ~up'[u].ioError ) =>
        /\ up'[u].status = 200
        /\ up'[u].fileUrl = up[u].filename
        /\ FinalPath(u) \in DOMAIN files
        /\ files[FinalPath(u)].data = up[u].body
        /\ static(files', up'[u].fileUrl).data = up[u].body ]_vars

\* C7: a delete request that finds a stored file at its path, and whose path
\* no other request changes while it runs, is answered 200 "File deleted
\* successfully"; a delete request for the path of a stored file that a
\* delete was answered 200 for, with no upload in between and no request
\* changing the path while it runs, is answered 404 "File not found".
C7_DeleteTwice ==
  \A d \in Deletes :
    (del[d].pc = "done" /\ ~del[d].disturbed) =>
      /\ (del[d].present /\ Inside(FilePath(d))) =>
           del[d].status = 200 /\ del[d].message = "File deleted successfully"
      /\ (del[d].follows /\ Inside(FilePath(d))) =>
           del[d].status = 404 /\ del[d].message = "File not found"

C7_Witness ==
  \E d, e \in Deletes :
    /\ del[d].pc = "done" /\ del[d].present /\ del[d].status = 200
    /\ Inside(FilePath(d))
    /\ del[e].pc = "done" /\ del[e].follows /\ ~del[e].disturbed
    /\ del[e].fileName = del[d].fileName /\ del[e].status = 404

\* C8 (as claimed): a failed upload is answered 500 when a write failed and
\* 400 otherwise (unsupported type, size over the ceiling, no file).
C8_UploadStatus ==
  \A u \in Uploads :
    (up[u].pc = "done" /\ up[u].status # 200) =>
      up[u].status = (IF up[u].ioError THEN 500 ELSE 400)

\* the path lies outside UPLOADS_DIR
Escapes(p) == ~Inside(p) /\ p # UPLOADS_DIR

\* C9 (as claimed): a delete request is answered 400 when its fileName is
\* missing, empty or leaves UPLOADS_DIR, else 404 when nothing is at its
\* path, else 200 when this request unlinks the file and 500 when the unlink
\* fails.
C9_DeleteStatus ==
  [][ \A d \in Deletes :
        (del[d].pc # "done" /\ del'[d].pc = "done") =>
          LET p == PathJoin(UPLOADS_DIR, del'[d].fileName) IN
          IF del'[d].fileName = NoName \/ Escapes(p)
          THEN del'[d].status = 400
          ELSE IF ~Exists(files, p)
          THEN del'[d].status = 404
          ELSE \/ del'[d].status = 200 /\ p \in DOMAIN files /\ p \notin DOMAIN files'
               \/ del'[d].status = 500 /\ files' = files ]_vars

\* a single path segment that is safe: no separator in it, and not "..", "."
SafeSegment(s) ==
  /\ \A i \in 1..Len(s) : s[i] \notin {"/", "\\"}
  /\ s # DotDot /\ s # <<".">> /\ s # << >>

\* C10 (as claimed): in every variant the stored name is a safe segment, the
\* identifier, "-" and the sanitized original name.
C10_SafeStoredName ==
  fn.called =>
    /\ SafeSegment(fn.out)
    /\ fn.out = generateCustomID(DefaultLength, fn.rnd, now) \o <<"-">>
                  \o sanitize(basename(fn.name))

\* the stored name of every variant is a safe segment (multer hands the
\* callback the basename of the client's file name)
StoredNameIsSegment == fn.called => SafeSegment(fn.out)

\* C11 (as claimed): once an upload that its client aborted mid-stream has
\* come to rest, no file of its stored name is in UPLOADS_DIR, and a GET of
\* that name is not answered with a file.
C11_AbortRemoves ==
  \A u \in Uploads :
    up[u].pc = "aborted" =>
      /\ FinalPath(u) \notin DOMAIN files
      /\ static(files, up[u].filename).status = 404

\* the upload has a stored name and has not been answered
InProgress(u) == up[u].pc \in {"open", "write", "remove"}

\* C12 (as claimed): an upload's response holds a file URL only once all of
\* its body is written, and while a delete request runs on a name that the
\* response to an upload told its caller, no upload of that stored name is
\* in progress.
C12_NoDeleteDuringUpload ==
  /\ \A u \in Uploads :
       up[u].fileUrl # NoName =>
         up[u].pc = "done" /\ up[u].pos = Len(up[u].body)
  /\ \A d \in Deletes, u \in Uploads :
       ( /\ del[d].pc \in {"access", "unlink"}
         /\ del[d].fileName \in LearnedNames
         /\ up[u].filename = del[d].fileName ) => ~InProgress(u)

\* delete d found a stored file at its path when it started
FoundStored(d) == del[d].present /\ Inside(FilePath(d))

\* C13 (as claimed): of the delete requests that found the same stored file
\* when they started, none is answered 500, no two are answered 200, and
\* once all are answered one of them was answered 200.
C13_ConcurrentDeletes ==
  \A d \in Deletes :
    (del[d].pc = "done" /\ FoundStored(d)) =>
      LET same == { e \in Deletes : FoundStored(e) /\ FilePath(e) = FilePath(d) } IN
      /\ del[d].status \in {200, 404}
      /\ \A e \in same \ {d} : ~(del[d].status = 200 /\ del[e].status = 200)
      /\ (\A e \in same : del[e].pc = "done") =>
           \E e \in same : del[e].status = 200

\* C14: a step of a delete request leaves the file system as it is, or
\* removes the one entry at the request's path and nothing else, and then the
\* request is answered 200; a step that answers 400 or 404 leaves the file
\* system as it is, and so did the steps of that request before it.
C14_DeleteFrame ==
  [][ \A d \in Deletes :
        del'[d].pc # del[d].pc =>
          /\ \/ files' = files
             \/ /\ del'[d].status = 200
                /\ DOMAIN files' = DOMAIN files \ {FilePath(d)}
                /\ \A q \in DOMAIN files' : files'[q] = files[q]
          /\ del'[d].status \in {400, 404} => files' = files
          /\ del'[d].pc # "done" => files' = files ]_vars

C14_Witness ==
  \E d, e \in Deletes :
    /\ del[d].pc = "done" /\ del[d].status = 200
    /\ FilePath(d) = OldPath /\ OldPath \notin DOMAIN files
    /\ del[e].pc = "done" /\ del[e].status = 404
    /\ OtherPath \in DOMAIN files /\ files[OtherPath] = InitialFiles[OtherPath]

\* the value of a base-36 digit, and of a base-36 numeral
Digit36(c) == CHOOSE k \in 0..(Radix - 1) : digits36[k + 1] = c

RECURSIVE Value36(_)
Value36(s) ==
  IF s = << >> THEN 0
  ELSE Radix * Value36(SubSeq(s, 1, Len(s) - 1)) + Digit36(s[Len(s)])

\* C15: in server.js, the stored name that storage.filename composes for an
\* original name is 8 characters of the 62-character alphabet (the ones
\* Math.random drew), the base-36 numeral of the current time, "-", and a
\* name of the original's length that equals the original at every position
\* holding a letter, a digit, "." or "-" and has "_" at every other one.
C15_StoredName ==
  (fn.called /\ variant = "server.js") =>
    LET orig == basename(fn.name)
        n == Len(orig)
        k == Len(fn.out) - n - 1 - DefaultLength
        time == SubSeq(fn.out, DefaultLength + 1, DefaultLength + k)
    IN  /\ Cardinality(Alnum) = 62
        /\ k >= 1
        /\ \A i \in 1..DefaultLength :
             fn.out[i] \in Alnum /\ fn.out[i] = chars[fn.rnd[i] + 1]
        /\ \A i \in 1..k : \E j \in 1..Radix : time[i] = digits36[j]
        /\ k > 1 => time[1] # "0"
        /\ Value36(time) = now
        /\ fn.out[DefaultLength + k + 1] = "-"
        /\ \A i \in 1..n :
             fn.out[DefaultLength + k + 1 + i] =
               (IF orig[i] \in Alnum \cup {".", "-"} THEN orig[i] ELSE "_")

C15_Witness ==
  /\ fn.called /\ variant = "server.js"
  /\ now = StartTime + 1
  /\ \E i, j \in 1..Len(basename(fn.name)) :
       basename(fn.name)[i] = " " /\ basename(fn.name)[j] = "."
  /\ \E i \in 1..Len(fn.out) : fn.out[i] = "_"

\* every request that has arrived is answered
AllAnswered ==
  /\ \A u \in Uploads : up[u].pc \in {"idle", "done"}
  /\ \A d \in Deletes : del[d].pc \in {"idle", "done"}

\* C16: a request has written no response before it is answered and one
\* response from then on, and, the event loop running the pending callbacks,
\* again and again every upload and every delete that has arrived is
\* answered (an answered request stays answered, so each is answered in the
\* end).
C16_OneResponse ==
  /\ [](\A u \in Uploads : up[u].sent = (IF up[u].pc = "done" THEN 1 ELSE 0))
  /\ [](\A d \in Deletes : del[d].sent = (IF del[d].pc = "done" THEN 1 ELSE 0))
  /\ []<>AllAnswered

C16_Witness ==
  /\ \E u \in Uploads : up[u].pc = "done" /\ up[u].status # 200
                          /\ up[u].hasFile /\ up[u].sent = 1
  /\ \E d \in Deletes : del[d].status = 500 /\ del[d].sent = 1
  /\ \E d \in Deletes : del[d].status = 200 /\ del[d].sent = 1

====
